---- MODULE Spec2Model ----
(***************************************************************************)
(* Model of check.py: for each entity type ("patient", "provider") the     *)
(* script reads a signals table, derives Location by a row-wise argmax     *)
(* over the columns at position 5 onward, joins against a reference        *)
(* locations table and prints the agreement (and, for patients, two        *)
(* coverage fractions).                                                    *)
(*                                                                         *)
(* A table is [cols |-> sequence of column names, rows |-> sequence of     *)
(* rows]; a row is a function from column name to value.  Timestamps are   *)
(* texts in the files and minutes-of-day once parsed.  A printed mean is   *)
(* kept as the unreduced fraction num/den, or nan when den = 0.            *)
(***************************************************************************)
EXTENDS Integers, Sequences, FiniteSets, TLC

VARIABLES csv, xn, pc, df1, df2, dx, out, exc

vars == <<csv, xn, pc, df1, df2, dx, out, exc>>

(* ---------------------------------------------------------------- bounds *)
MaxSigRows == 2
MaxRefRows == 2
MaxSignal == 2

(* ------------------------------------------------------ program constants *)
SliceStart == 5

Entities == <<"patient", "provider">>

(* ------------------------------------------------------------- helpers *)
Range(s) == {s[i] : i \in 1..Len(s)}

Last(s) == s[Len(s)]

RECURSIVE Filter(_, _)
Filter(s, keep) ==
    IF s = <<>> THEN <<>>
    ELSE IF Head(s) \in keep THEN <<Head(s)>> \o Filter(Tail(s), keep)
         ELSE Filter(Tail(s), keep)

NoTable == [cols |-> <<>>, rows |-> <<>>]

NoExc == [line |-> 0, type |-> "none"]

(* ------------------------------------------------- pd.to_datetime (15,18) *)
Parseable(text) ==
    text \in {"2020-01-01 08:00", "2020-01-01T08:00", "2020-01-01 09:00",
              "2020-01-01T09:00", "2020-01-01 10:00"}

ToDatetime(text) ==
    CASE text = "2020-01-01 08:00" -> 480
      [] text = "2020-01-01T08:00" -> 480
      [] text = "2020-01-01 09:00" -> 540
      [] text = "2020-01-01T09:00" -> 540
      [] text = "2020-01-01 10:00" -> 600

ColumnParseable(df, c) == \A i \in 1..Len(df.rows) : Parseable(df.rows[i][c])

ParseColumn(df, c) ==
    [df EXCEPT !.rows = [i \in 1..Len(df.rows) |->
        [k \in DOMAIN df.rows[i] |->
            IF k = c THEN ToDatetime(df.rows[i][k]) ELSE df.rows[i][k]]]]

(* --------------------------------------- df1.iloc[:, 5:].idxmax(axis=1) (8) *)
ILocFrom(df, start) ==
    IF Len(df.cols) <= start THEN <<>>
    ELSE SubSeq(df.cols, start + 1, Len(df.cols))

RECURSIVE ArgMaxScanLast(_, _, _, _)
ArgMaxScanLast(row, slice, i, best) ==
    IF i > Len(slice) THEN best
    ELSE ArgMaxScanLast(row, slice, i + 1,
            IF row[slice[i]] >= row[slice[best]] THEN i ELSE best)

RECURSIVE ArgMaxScan(_, _, _, _)
ArgMaxScan(row, slice, i, best) ==
    IF i > Len(slice) THEN best
    ELSE ArgMaxScan(row, slice, i + 1,
            IF row[slice[i]] > row[slice[best]] THEN i ELSE best)

IdxMax(row, slice) == slice[ArgMaxScan(row, slice, 2, 1)]

WithColumn(df, c, values) ==
    [cols |-> IF c \in Range(df.cols) THEN df.cols ELSE Append(df.cols, c),
     rows |-> [i \in 1..Len(df.rows) |->
        [k \in DOMAIN df.rows[i] \cup {c} |->
            IF k = c THEN values[i] ELSE df.rows[i][k]]]]

(* ------------------------------------------------- column selection (9-14,19) *)
SignalVars(e) ==
    IF e = "patient"
    THEN <<"TagId", "Time", "Location", "CSN", "ClarityStart", "ClarityEnd">>
    ELSE <<"TagId", "Time", "Location", "UMid">>

LocationVars == <<"TagID", "CSN", "UMid", "Time", "Room1">>

HasColumns(df, names) == Range(names) \subseteq Range(df.cols)

SelectColumns(df, names) ==
    [cols |-> names,
     rows |-> [i \in 1..Len(df.rows) |-> [k \in Range(names) |-> df.rows[i][k]]]]

(* --------------------------------------------------------- pd.merge (21-24) *)
JoinKeysTimeOnly(e) == <<"Time">>

JoinKeys(e) == IF e = "patient" THEN <<"CSN", "Time">> ELSE <<"UMid", "Time">>

KeysEqual(l, r, on) == \A i \in 1..Len(on) : l[on[i]] = r[on[i]]

RECURSIVE MatchOne(_, _, _)
MatchOne(l, rrows, on) ==
    IF rrows = <<>> THEN <<>>
    ELSE IF KeysEqual(l, Head(rrows), on)
         THEN <<l @@ Head(rrows)>> \o MatchOne(l, Tail(rrows), on)
         ELSE MatchOne(l, Tail(rrows), on)

RECURSIVE MergeRows(_, _, _)
MergeRows(lrows, rrows, on) ==
    IF lrows = <<>> THEN <<>>
    ELSE MatchOne(Head(lrows), rrows, on) \o MergeRows(Tail(lrows), rrows, on)

MergedCols(left, right) == left.cols \o Filter(right.cols, Range(right.cols) \ Range(left.cols))

UnmatchedRight(right) == [k \in Range(right.cols) |-> IF k = "Room1" THEN "nan" ELSE 0 - 1]

RECURSIVE MergeRowsLeft(_, _, _, _)
MergeRowsLeft(lrows, rrows, on, fill) ==
    IF lrows = <<>> THEN <<>>
    ELSE (IF MatchOne(Head(lrows), rrows, on) = <<>>
          THEN <<Head(lrows) @@ fill>>
          ELSE MatchOne(Head(lrows), rrows, on))
         \o MergeRowsLeft(Tail(lrows), rrows, on, fill)

PdMergeLeft(left, right, on) ==
    [cols |-> MergedCols(left, right),
     rows |-> MergeRowsLeft(left.rows, right.rows, on, UnmatchedRight(right))]

PdMerge(left, right, on) ==
    [cols |-> MergedCols(left, right),
     rows |-> MergeRows(left.rows, right.rows, on)]

(* ------------------------------------------------ boolean series and .mean() *)
EqSeriesNegated(df, a, b) == [i \in 1..Len(df.rows) |-> df.rows[i][a] # df.rows[i][b]]

EqSeries(df, a, b) == [i \in 1..Len(df.rows) |-> df.rows[i][a] = df.rows[i][b]]

GeSeries(df, a, b) == [i \in 1..Len(df.rows) |-> df.rows[i][a] >= df.rows[i][b]]

LeSeries(df, a, b) == [i \in 1..Len(df.rows) |-> df.rows[i][a] <= df.rows[i][b]]

RECURSIVE SumTrue(_)
SumTrue(bools) ==
    IF bools = <<>> THEN 0
    ELSE (IF Head(bools) THEN 1 ELSE 0) + SumTrue(Tail(bools))

MeanZeroWhenEmpty(bools) ==
    IF Len(bools) = 0 THEN [nan |-> FALSE, num |-> 0, den |-> 1]
    ELSE [nan |-> FALSE, num |-> SumTrue(bools), den |-> Len(bools)]

Mean(bools) ==
    IF Len(bools) = 0 THEN [nan |-> TRUE, num |-> 0, den |-> 0]
    ELSE [nan |-> FALSE, num |-> SumTrue(bools), den |-> Len(bools)]

Agreement(joined) == Mean(EqSeries(joined, "Location", "Room1"))

CoverageStartJoint(df) ==
    Mean([i \in 1..Len(df.rows) |->
        GeSeries(df, "Time", "ClarityStart")[i] /\ LeSeries(df, "Time", "ClarityEnd")[i]])

CoverageStart(df) == Mean(GeSeries(df, "Time", "ClarityStart"))

CoverageEnd(df) == Mean(LeSeries(df, "Time", "ClarityEnd"))

(* ------------------------------------------------------------- file paths *)
SignalsPath(e) == e

LocationsPathPatient(e) == "patient"

LocationsPath(e) == e

(* --------------------------------------------------------- control flow *)
Raise(line, type) ==
    /\ pc' = "error"
    /\ exc' = [line |-> line, type |-> type]

Goto(label) ==
    /\ pc' = label
    /\ exc' = exc

Emit(line, value) == out' = Append(out, [xn |-> xn, line |-> line, val |-> value])

(* line 7 *)
ReadSignals ==
    /\ pc = "L7"
    /\ df1' = csv[SignalsPath(xn)].signals
    /\ Goto("L8")
    /\ UNCHANGED <<csv, xn, df2, dx, out>>

(* line 8 *)
AssignLocation ==
    /\ pc = "L8"
    /\ LET slice == ILocFrom(df1, SliceStart)
       IN IF slice = <<>> /\ df1.rows # <<>>
          THEN /\ Raise(8, "ValueError")
               /\ df1' = df1
          ELSE /\ df1' = WithColumn(df1, "Location",
                            [i \in 1..Len(df1.rows) |-> IdxMax(df1.rows[i], slice)])
               /\ Goto("L14")
    /\ UNCHANGED <<csv, xn, df2, dx, out>>

(* lines 9-14 *)
SelectVars ==
    /\ pc = "L14"
    /\ IF HasColumns(df1, SignalVars(xn))
       THEN /\ df1' = SelectColumns(df1, SignalVars(xn))
            /\ Goto("L15")
       ELSE /\ Raise(14, "KeyError")
            /\ df1' = df1
    /\ UNCHANGED <<csv, xn, df2, dx, out>>

(* line 15 *)
ParseSignalTime ==
    /\ pc = "L15"
    /\ IF ColumnParseable(df1, "Time")
       THEN /\ df1' = ParseColumn(df1, "Time")
            /\ Goto("L17")
       ELSE /\ Raise(15, "ValueError")
            /\ df1' = df1
    /\ UNCHANGED <<csv, xn, df2, dx, out>>

(* line 17 *)
ReadLocations ==
    /\ pc = "L17"
    /\ df2' = csv[LocationsPath(xn)].locations
    /\ Goto("L18")
    /\ UNCHANGED <<csv, xn, df1, dx, out>>

(* line 18 *)
ParseLocationTime ==
    /\ pc = "L18"
    /\ IF ~HasColumns(df2, <<"Time">>)
       THEN /\ Raise(18, "AttributeError")
            /\ df2' = df2
       ELSE IF ColumnParseable(df2, "Time")
            THEN /\ df2' = ParseColumn(df2, "Time")
                 /\ Goto("L19")
            ELSE /\ Raise(18, "ValueError")
                 /\ df2' = df2
    /\ UNCHANGED <<csv, xn, df1, dx, out>>

(* line 19 *)
SelectLocationColumns ==
    /\ pc = "L19"
    /\ IF HasColumns(df2, LocationVars)
       THEN /\ df2' = SelectColumns(df2, LocationVars)
            /\ Goto("L21")
       ELSE /\ Raise(19, "KeyError")
            /\ df2' = df2
    /\ UNCHANGED <<csv, xn, df1, dx, out>>

(* lines 21-24 *)
Merge ==
    /\ pc = "L21"
    /\ dx' = PdMerge(df1, df2, JoinKeys(xn))
    /\ Goto("L26")
    /\ UNCHANGED <<csv, xn, df1, df2, out>>

(* line 26, then line 28 (patient) or the next turn of the loop at line 4 *)
PrintAgreement ==
    /\ pc = "L26"
    /\ Emit(26, Agreement(dx))
    /\ Goto(IF xn = "patient" THEN "L29" ELSE "done")
    /\ UNCHANGED <<csv, xn, df1, df2, dx>>

(* line 29 *)
ParseClarityStart ==
    /\ pc = "L29"
    /\ IF ColumnParseable(df1, "ClarityStart")
       THEN /\ df1' = ParseColumn(df1, "ClarityStart")
            /\ Goto("L30")
       ELSE /\ Raise(29, "ValueError")
            /\ df1' = df1
    /\ UNCHANGED <<csv, xn, df2, dx, out>>

(* line 30 *)
ParseClarityEnd ==
    /\ pc = "L30"
    /\ IF ColumnParseable(df1, "ClarityEnd")
       THEN /\ df1' = ParseColumn(df1, "ClarityEnd")
            /\ Goto("L31")
       ELSE /\ Raise(30, "ValueError")
            /\ df1' = df1
    /\ UNCHANGED <<csv, xn, df2, dx, out>>

(* line 31 *)
PrintCoverageStart ==
    /\ pc = "L31"
    /\ Emit(31, CoverageStart(df1))
    /\ Goto("L32")
    /\ UNCHANGED <<csv, xn, df1, df2, dx>>

(* line 32, then the next turn of the loop at line 4 *)
PrintCoverageEnd ==
    /\ pc = "L32"
    /\ Emit(32, CoverageEnd(df1))
    /\ xn' = "provider"
    /\ Goto("L7")
    /\ UNCHANGED <<csv, df1, df2, dx>>

Next ==
    \/ ReadSignals
    \/ AssignLocation
    \/ SelectVars
    \/ ParseSignalTime
    \/ ReadLocations
    \/ ParseLocationTime
    \/ SelectLocationColumns
    \/ Merge
    \/ PrintAgreement
    \/ ParseClarityStart
    \/ ParseClarityEnd
    \/ PrintCoverageStart
    \/ PrintCoverageEnd

(* --------------------------------------------------------- input tables *)
(* Column layout of the signals files: TagId, Time, the identifier columns *)
(* the script selects for the entity type, then the per-room columns.      *)
Rooms == <<"RoomA", "RoomB", "RoomC", "RoomD">>

IdentifierColumns(e) ==
    IF e = "patient"
    THEN <<"TagId", "Time", "CSN", "ClarityStart", "ClarityEnd">>
    ELSE <<"TagId", "Time", "UMid">>

SignalsColumns(e) == IdentifierColumns(e) \o Rooms

RoomValues(sig) == [c \in Range(Rooms) |-> sig[CHOOSE i \in 1..Len(Rooms) : Rooms[i] = c]]

SignalRow(e, tag, time, key, start, end, sig) ==
    IF e = "patient"
    THEN ("TagId" :> tag) @@ ("Time" :> time) @@ ("CSN" :> key)
         @@ ("ClarityStart" :> start) @@ ("ClarityEnd" :> end) @@ RoomValues(sig)
    ELSE ("TagId" :> tag) @@ ("Time" :> time) @@ ("UMid" :> key) @@ RoomValues(sig)

LocationRow(e, tag, key, time, room) ==
    [TagID |-> tag,
     CSN |-> IF e = "patient" THEN key ELSE 1,
     UMid |-> IF e = "patient" THEN 1 ELSE key,
     Time |-> time,
     Room1 |-> room]

SignalsTable(e, rows) == [cols |-> SignalsColumns(e), rows |-> rows]

LocationsTable(rows) == [cols |-> LocationVars, rows |-> rows]

DropColumn(df, c) ==
    [cols |-> Filter(df.cols, Range(df.cols) \ {c}),
     rows |-> [i \in 1..Len(df.rows) |-> [k \in DOMAIN df.rows[i] \ {c} |-> df.rows[i][k]]]]

T8 == "2020-01-01 08:00"
T9 == "2020-01-01 09:00"
T10 == "2020-01-01 10:00"
T8iso == "2020-01-01T08:00"
T9iso == "2020-01-01T09:00"
Unparseable == "25:99"

(* Tables of up to n rows over row types 1..k, rows in row-type order. *)
RowTypeSeqs(k, n) ==
    {s \in UNION {[1..m -> 1..k] : m \in 0..n} :
        \A i \in 1..Len(s) : i = Len(s) \/ s[i] <= s[i + 1]}

DefaultSignal == <<2, 0, 1, 0>>

DefaultSignals(e) == SignalsTable(e, <<SignalRow(e, 1, T8, 1, T8, T9, DefaultSignal)>>)

DefaultLocations(e) == LocationsTable(<<LocationRow(e, 1, 1, T8iso, "RoomC")>>)

Files(s, l) == [signals |-> s, locations |-> l]

DefaultFiles(e) == Files(DefaultSignals(e), DefaultLocations(e))

Inputs(e, fileSet) ==
    {[x \in Range(Entities) |-> IF x = e THEN f ELSE DefaultFiles(x)] : f \in fileSet}

(* One reading, every combination of room signal strengths. *)
ArgmaxFiles(e) ==
    {Files(SignalsTable(e, <<SignalRow(e, 1, T8, 1, T8, T9, sig)>>), DefaultLocations(e)) :
        sig \in [1..Len(Rooms) -> 0..MaxSignal]}

(* Readings and reference records over two keys, two instants, two tags. *)
Digit(t, d, base) == ((t - 1) \div d) % base

JoinSignalRow(e, t) ==
    SignalRow(e, 1, IF Digit(t, 1, 2) = 0 THEN T8 ELSE T9, 1 + Digit(t, 2, 2),
              T8, T9, DefaultSignal)

JoinLocationRow(e, t) ==
    LocationRow(e, 1 + Digit(t, 1, 2),
                1 + Digit(t, 2, 2),
                IF Digit(t, 4, 2) = 0 THEN T8iso ELSE T9,
                IF Digit(t, 1, 2) = 0 THEN (IF e = "patient" THEN "RoomA" ELSE "RoomC")
                ELSE "RoomB")

JoinFiles(e) ==
    {Files(SignalsTable(e, [i \in 1..Len(s) |-> JoinSignalRow(e, s[i])]),
           LocationsTable([j \in 1..Len(l) |-> JoinLocationRow(e, l[j])])) :
        s \in RowTypeSeqs(4, MaxSigRows), l \in RowTypeSeqs(8, MaxRefRows)}

(* Readings before, inside and after the visit window. *)
CoverageSignalRow(e, t) ==
    SignalRow(e, 1,
              CASE Digit(t, 1, 3) = 0 -> T8 [] Digit(t, 1, 3) = 1 -> T9 [] OTHER -> T10,
              1,
              IF Digit(t, 3, 2) = 0 THEN T8 ELSE T9,
              IF Digit(t, 6, 2) = 0 THEN T9 ELSE T10,
              DefaultSignal)

CoverageFiles(e) ==
    {Files(SignalsTable(e, [i \in 1..Len(s) |-> CoverageSignalRow(e, s[i])]),
           LocationsTable(<<LocationRow(e, 1, 1, T9iso, "RoomA")>>)) :
        s \in RowTypeSeqs(12, MaxSigRows)}

(* Structurally broken files: a column missing, a timestamp unparseable. *)
MalformedSignals(e) ==
    {DropColumn(DefaultSignals(e), c) : c \in Range(IdentifierColumns(e))}
    \cup {[cols |-> IdentifierColumns(e),
           rows |-> DropColumn(DropColumn(DropColumn(DropColumn(DefaultSignals(e),
                        "RoomA"), "RoomB"), "RoomC"), "RoomD").rows]}
    \cup {SignalsTable(e, <<SignalRow(e, 1, Unparseable, 1, T8, T9, DefaultSignal)>>),
          SignalsTable(e, <<SignalRow(e, 1, T8, 1, Unparseable, T9, DefaultSignal)>>),
          SignalsTable(e, <<SignalRow(e, 1, T8, 1, T8, Unparseable, DefaultSignal)>>),
          SignalsTable(e, <<SignalRow(e, 1, T9, 2, Unparseable, T9, DefaultSignal)>>)}

MalformedLocations(e) ==
    {DropColumn(DefaultLocations(e), c) : c \in Range(LocationVars)}
    \cup {LocationsTable(<<LocationRow(e, 1, 1, Unparseable, "RoomC")>>)}

MalformedFiles(e) ==
    {Files(s, DefaultLocations(e)) : s \in MalformedSignals(e)}
    \cup {Files(DefaultSignals(e), l) : l \in MalformedLocations(e)}

InputFiles(e) == ArgmaxFiles(e) \cup JoinFiles(e) \cup CoverageFiles(e) \cup MalformedFiles(e)

Init ==
    /\ csv \in Inputs("patient", InputFiles("patient")) \cup Inputs("provider", InputFiles("provider"))
    /\ xn = "patient"
    /\ pc = "L7"
    /\ df1 = NoTable
    /\ df2 = NoTable
    /\ dx = NoTable
    /\ out = <<>>
    /\ exc = NoExc

Spec == Init /\ [][Next]_vars

(* ================================================================ claims *)
(* The input files of the entity type in hand, as they are on disk. *)
SigFile == csv[xn].signals

LocFile == csv[xn].locations

KeyColumn(e) == IF e = "patient" THEN "CSN" ELSE "UMid"

(* df1, df2 and dx are those of the entity type in hand. *)
AfterMerge == pc \in {"L26", "L29", "L30", "L31", "L32", "done"}

PrintedAgreement == pc \in {"L29", "L30", "L31", "L32", "done"}

(* Joined row d carries reading i of the signals file / record j of the    *)
(* locations file.                                                         *)
FromReading(d, i) ==
    /\ d.TagId = SigFile.rows[i].TagId
    /\ d[KeyColumn(xn)] = SigFile.rows[i][KeyColumn(xn)]
    /\ d.Time = ToDatetime(SigFile.rows[i].Time)
    /\ d.Location = df1.rows[i].Location

FromRecord(d, j) ==
    /\ d.TagID = LocFile.rows[j].TagID
    /\ d.CSN = LocFile.rows[j].CSN
    /\ d.UMid = LocFile.rows[j].UMid
    /\ d.Time = ToDatetime(LocFile.rows[j].Time)
    /\ d.Room1 = LocFile.rows[j].Room1

Readings == 1..Len(SigFile.rows)

Records == 1..Len(LocFile.rows)

Joined == 1..Len(dx.rows)

PairMatches(i, j) ==
    /\ SigFile.rows[i][KeyColumn(xn)] = LocFile.rows[j][KeyColumn(xn)]
    /\ ToDatetime(SigFile.rows[i].Time) = ToDatetime(LocFile.rows[j].Time)

MatchingPairs == {p \in Readings \X Records : PairMatches(p[1], p[2])}

AgreementLine == Last(Filter(out, {l \in Range(out) : l.xn = xn /\ l.line = 26}))

(* C1 (as stated): every joined row pairs a reading and a reference record *)
(* with the same tag identifier (TagId = TagID) and the same parsed        *)
(* timestamp.                                                              *)
C1_SameTagAndTime ==
    AfterMerge =>
        \A k \in Joined : \E p \in MatchingPairs :
            /\ FromReading(dx.rows[k], p[1])
            /\ FromRecord(dx.rows[k], p[2])
            /\ SigFile.rows[p[1]].TagId = LocFile.rows[p[2]].TagID

(* C1 (amended): every joined row pairs a reading and a reference record   *)
(* with the same join key (CSN for patient, UMid for provider) and the     *)
(* same parsed timestamp; their tag identifiers may differ.                *)
C1_SameKeyAndTime ==
    AfterMerge =>
        \A k \in Joined : \E i \in Readings, j \in Records :
            /\ FromReading(dx.rows[k], i)
            /\ FromRecord(dx.rows[k], j)
            /\ SigFile.rows[i][KeyColumn(xn)] = LocFile.rows[j][KeyColumn(xn)]
            /\ ToDatetime(SigFile.rows[i].Time) = ToDatetime(LocFile.rows[j].Time)

C1_Witness ==
    /\ AfterMerge
    /\ \E k \in Joined, i \in Readings, j \in Records :
        /\ FromReading(dx.rows[k], i)
        /\ FromRecord(dx.rows[k], j)
        /\ SigFile.rows[i].Time # LocFile.rows[j].Time
        /\ dx.rows[k].TagId # dx.rows[k].TagID

(* C2: no signal reading appears in more than one joined row, so the       *)
(* agreement denominator never exceeds the number of signal readings.      *)
C2_AtMostOneRowPerReading ==
    AfterMerge =>
        /\ \A i \in Readings : Cardinality({j \in Records : PairMatches(i, j)}) <= 1
        /\ Len(dx.rows) <= Len(SigFile.rows)

(* C3: with a non-empty join, the printed agreement is the number of       *)
(* joined rows with Location = Room1 over the number of joined rows, and   *)
(* its numerator lies between 0 and the denominator.                       *)
C3_AgreementIsFraction ==
    (PrintedAgreement /\ Len(dx.rows) > 0) =>
        /\ ~AgreementLine.val.nan
        /\ AgreementLine.val.den = Len(dx.rows)
        /\ AgreementLine.val.num =
              Cardinality({k \in Joined : dx.rows[k].Location = dx.rows[k].Room1})
        /\ 0 <= AgreementLine.val.num
        /\ AgreementLine.val.num <= AgreementLine.val.den

C3_Witness ==
    /\ PrintedAgreement
    /\ AgreementLine.val.den >= 2
    /\ AgreementLine.val.num > 0
    /\ AgreementLine.val.num < AgreementLine.val.den

(* C4: the join is a strict inner join: a reading with no reference record *)
(* of equal key and timestamp, and a reference record with no such         *)
(* reading, is in no joined row, and the agreement's denominator counts    *)
(* exactly the matching pairs.                                             *)
C4_StrictInnerJoin ==
    AfterMerge =>
        /\ Len(dx.rows) = Cardinality(MatchingPairs)
        /\ \A i \in Readings :
              (\A j \in Records : ~PairMatches(i, j)) =>
                  \A k \in Joined : ~FromReading(dx.rows[k], i)
        /\ \A j \in Records :
              (\A i \in Readings : ~PairMatches(i, j)) =>
                  \A k \in Joined : ~FromRecord(dx.rows[k], j)
        /\ PrintedAgreement =>
              AgreementLine.val.den = Cardinality(MatchingPairs)

C4_Witness ==
    /\ PrintedAgreement
    /\ Len(dx.rows) > 0
    /\ \E i \in Readings : \A j \in Records : ~PairMatches(i, j)
    /\ \E j \in Records : \A i \in Readings : ~PairMatches(i, j)

(* The columns the argmax runs over: those at position 5 onward of the     *)
(* signals file.                                                           *)
ArgmaxSlice == {SigFile.cols[p] : p \in (SliceStart + 1)..Len(SigFile.cols)}

PositionOf(c) == CHOOSE p \in 1..Len(SigFile.cols) : SigFile.cols[p] = c

WellFormedSignals == Range(SignalsColumns(xn)) \subseteq Range(SigFile.cols)

(* C5: for both entity types the Location of every reading is a per-room   *)
(* column of the argmax slice and never an identifier column, and the      *)
(* slice (columns from index 5 onward) covers all per-room columns.        *)
C5_SliceIsTheRoomColumns ==
    (pc = "L14" /\ WellFormedSignals) =>
        /\ \A i \in Readings :
              /\ df1.rows[i].Location \in ArgmaxSlice
              /\ df1.rows[i].Location \in Range(Rooms)
              /\ df1.rows[i].Location \notin Range(IdentifierColumns(xn))
        /\ Range(Rooms) \subseteq ArgmaxSlice

EmptyJoin(e) ==
    \A i \in 1..Len(csv[e].signals.rows), j \in 1..Len(csv[e].locations.rows) :
        \/ csv[e].signals.rows[i][KeyColumn(e)] # csv[e].locations.rows[j][KeyColumn(e)]
        \/ ToDatetime(csv[e].signals.rows[i].Time) # ToDatetime(csv[e].locations.rows[j].Time)

LineNumbers == [n \in 1..Len(out) |-> <<out[n].xn, out[n].line>>]

(* C7: when the join of an entity type is empty its agreement is printed   *)
(* as NaN, not as 0; the print raises no error (only the structural checks *)
(* of lines 8-19 and 29-30 do), and a run that ends normally has printed   *)
(* the patient agreement, both patient coverage lines and the provider     *)
(* agreement.                                                              *)
C7_EmptyJoinIsNaN ==
    /\ \A n \in 1..Len(out) :
          (out[n].line = 26 /\ EmptyJoin(out[n].xn)) =>
              out[n].val = [nan |-> TRUE, num |-> 0, den |-> 0]
    /\ pc = "error" => exc.line \in {8, 14, 15, 18, 19, 29, 30}
    /\ pc = "done" =>
          LineNumbers = <<<<"patient", 26>>, <<"patient", 31>>, <<"patient", 32>>,
                          <<"provider", 26>>>>

C7_Witness ==
    /\ pc = "done"
    /\ EmptyJoin("patient")
    /\ Len(csv["patient"].signals.rows) > 0
    /\ Len(csv["patient"].locations.rows) > 0
    /\ out[1].val.nan
    /\ Len(out) = 4

(* Printed fraction of the readings counted in `hits`. *)
Fraction(hits, total) ==
    IF total = 0 THEN [nan |-> TRUE, num |-> 0, den |-> 0]
    ELSE [nan |-> FALSE, num |-> Cardinality(hits), den |-> total]

PatientReadings == 1..Len(csv["patient"].signals.rows)

OnOrAfterStart ==
    {i \in PatientReadings :
        ToDatetime(csv["patient"].signals.rows[i].Time)
            >= ToDatetime(csv["patient"].signals.rows[i].ClarityStart)}

OnOrBeforeEnd ==
    {i \in PatientReadings :
        ToDatetime(csv["patient"].signals.rows[i].Time)
            <= ToDatetime(csv["patient"].signals.rows[i].ClarityEnd)}

(* C8: coverage is printed for the patient entity type only, as two        *)
(* fractions over all readings of the patient signals file: those with     *)
(* Time >= ClarityStart and those with Time <= ClarityEnd, each counted on *)
(* its own and neither depending on the reference table.                   *)
C8_CoverageSeparate ==
    \A n \in 1..Len(out) :
        /\ out[n].line \in {31, 32} => out[n].xn = "patient"
        /\ out[n].line = 31 =>
              out[n].val = Fraction(OnOrAfterStart, Len(csv["patient"].signals.rows))
        /\ out[n].line = 32 =>
              out[n].val = Fraction(OnOrBeforeEnd, Len(csv["patient"].signals.rows))

C8_Witness ==
    /\ pc = "L7"
    /\ xn = "provider"
    /\ Len(out) = 3
    /\ out[1].val.den < Len(csv["patient"].signals.rows)
    /\ out[2].val.num # Cardinality(OnOrAfterStart \cap OnOrBeforeEnd)
    /\ out[3].val.num # Cardinality(OnOrAfterStart \cap OnOrBeforeEnd)

(* C9: a structural error (a missing column, an unparseable Time,          *)
(* ClarityStart or ClarityEnd) ends the run before any metric line of that *)
(* entity type has been printed.                                           *)
C9_FailBeforeAnyLine ==
    pc = "error" => \A n \in 1..Len(out) : out[n].xn # xn

(* What the files of entity type e alone determine of its metric lines.    *)
FirstMaxColumn(f, row) ==
    LET slice == (SliceStart + 1)..Len(f.cols)
    IN f.cols[CHOOSE p \in slice :
                /\ \A q \in slice : row[f.cols[q]] <= row[f.cols[p]]
                /\ \A q \in slice : q < p => row[f.cols[q]] < row[f.cols[p]]]

SignalsLoad(e, f) ==
    /\ Len(f.cols) > SliceStart \/ f.rows = <<>>
    /\ \A c \in Range(SignalVars(e)) \ {"Location"} : c \in Range(f.cols)
    /\ \A i \in 1..Len(f.rows) : Parseable(f.rows[i].Time)

LocationsLoad(f) ==
    /\ \A c \in Range(LocationVars) : c \in Range(f.cols)
    /\ \A j \in 1..Len(f.rows) : Parseable(f.rows[j].Time)

ExpectedAgreement(e, fs) ==
    LET pairs == {p \in (1..Len(fs.signals.rows)) \X (1..Len(fs.locations.rows)) :
                    /\ fs.signals.rows[p[1]][KeyColumn(e)]
                         = fs.locations.rows[p[2]][KeyColumn(e)]
                    /\ ToDatetime(fs.signals.rows[p[1]].Time)
                         = ToDatetime(fs.locations.rows[p[2]].Time)}
        agree == {p \in pairs :
                    FirstMaxColumn(fs.signals, fs.signals.rows[p[1]])
                        = fs.locations.rows[p[2]].Room1}
    IN Fraction(agree, Cardinality(pairs))

ExpectedCoverage(e, fs) ==
    LET rows == fs.signals.rows
    IN IF e # "patient" THEN <<>>
       ELSE IF \E i \in 1..Len(rows) :
                  ~Parseable(rows[i].ClarityStart) \/ ~Parseable(rows[i].ClarityEnd)
            THEN <<>>
            ELSE <<[xn |-> e, line |-> 31,
                    val |-> Fraction({i \in 1..Len(rows) :
                                ToDatetime(rows[i].Time) >= ToDatetime(rows[i].ClarityStart)},
                                Len(rows))],
                   [xn |-> e, line |-> 32,
                    val |-> Fraction({i \in 1..Len(rows) :
                                ToDatetime(rows[i].Time) <= ToDatetime(rows[i].ClarityEnd)},
                                Len(rows))]>>

ExpectedLines(e, fs) ==
    IF ~SignalsLoad(e, fs.signals) THEN <<>>
    ELSE IF ~LocationsLoad(fs.locations) THEN <<>>
    ELSE <<[xn |-> e, line |-> 26, val |-> ExpectedAgreement(e, fs)]>>
         \o ExpectedCoverage(e, fs)

LinesOf(e) == Filter(out, {l \in Range(out) : l.xn = e})

Terminated == pc \in {"done", "error"}

(* C10 (as stated): the provider metric lines of a run are determined by   *)
(* the provider tables alone, whatever the patient tables contain.         *)
C10_ProviderWhateverPatient ==
    Terminated => LinesOf("provider") = ExpectedLines("provider", csv["provider"])

(* C10 (amended): the patient metric lines of a run are determined by the  *)
(* patient tables alone, and so are the provider metric lines by the       *)
(* provider tables whenever the run reaches the provider entity type, that *)
(* is, whenever the patient tables raised no error.                        *)
C10_Independent ==
    Terminated =>
        /\ LinesOf("patient") = ExpectedLines("patient", csv["patient"])
        /\ xn = "provider" =>
              LinesOf("provider") = ExpectedLines("provider", csv["provider"])

C10_Witness ==
    /\ pc = "done"
    /\ csv["patient"].locations # csv["provider"].locations
    /\ LinesOf("patient")[1].val # LinesOf("provider")[1].val
    /\ LinesOf("provider") = ExpectedLines("provider", csv["provider"])
====
